---- MODULE Spec2Model ----
(***************************************************************************)
(* The svelteInspector Vite plugin (custom-plugins/inspector/plugin.ts):   *)
(* its session state, its six hooks and the dev-channel handler that       *)
(* drives the editor.  JavaScript strings are sequences of one-character   *)
(* strings, indexed from 0 in the operators that take JavaScript indexes.  *)
(***************************************************************************)
EXTENDS Integers, Sequences, FiniteSets, TLC

\* ------------------------------------------------------------------------
\* String literals of the source, character by character.
OPTIONS_ID ==
    <<"v","i","r","t","u","a","l",":","s","v","e","l","t","e","-","i","n","s","p","e","c","t","o","r","-","o","p","t","i","o","n","s">>
PATH_PREFIX ==
    <<"v","i","r","t","u","a","l",":","s","v","e","l","t","e","-","i","n","s","p","e","c","t","o","r","-","p","a","t","h",":">>
DIST_SUFFIX ==
    <<"/","v","i","t","e","-","p","l","u","g","i","n","-","s","v","e","l","t","e","/","d","i","s","t">>
UI_DIR ==
    <<"/","v","i","t","e","-","p","l","u","g","i","n","-","s","v","e","l","t","e","/","s","r","c","/","u","i","/","i","n","s","p","e","c","t","o","r","/">>
EXPORT_DEFAULT ==
    <<"e","x","p","o","r","t"," ","d","e","f","a","u","l","t"," ">>
IMPORT_STMT ==
    <<"\n","i","m","p","o","r","t"," ","'","v","i","r","t","u","a","l",":","s","v","e","l","t","e","-","i","n","s","p","e","c","t","o","r","-","p","a","t","h",":","l","o","a","d","-","i","n","s","p","e","c","t","o","r",".","j","s","'">>
SCRIPT_SRC ==
    <<"/","@","i","d","/","v","i","r","t","u","a","l",":","s","v","e","l","t","e","-","i","n","s","p","e","c","t","o","r","-","p","a","t","h",":","l","o","a","d","-","i","n","s","p","e","c","t","o","r",".","j","s">>
LOADER ==
    <<"l","o","a","d","-","i","n","s","p","e","c","t","o","r",".","j","s">>
GENERATED_ROOT ==
    <<"/","g","e","n","e","r","a","t","e","d","/","r","o","o","t",".","s","v","e","l","t","e">>
DOT_SVELTE_KIT ==
    <<".","s","v","e","l","t","e","-","k","i","t">>
K_toggleKeyCombo ==
    <<"t","o","g","g","l","e","K","e","y","C","o","m","b","o">>
K_navKeys ==
    <<"n","a","v","K","e","y","s">>
K_openKey ==
    <<"o","p","e","n","K","e","y">>
K_holdMode ==
    <<"h","o","l","d","M","o","d","e">>
K_showToggleButton ==
    <<"s","h","o","w","T","o","g","g","l","e","B","u","t","t","o","n">>
K_toggleButtonPos ==
    <<"t","o","g","g","l","e","B","u","t","t","o","n","P","o","s">>
K_customStyles ==
    <<"c","u","s","t","o","m","S","t","y","l","e","s">>
K_appendTo ==
    <<"a","p","p","e","n","d","T","o">>
K_outDir ==
    <<"o","u","t","D","i","r">>
K_parent ==
    <<"p","a","r","e","n","t">>
K_child ==
    <<"c","h","i","l","d">>
K_next ==
    <<"n","e","x","t">>
K_prev ==
    <<"p","r","e","v">>
control_shift ==
    <<"c","o","n","t","r","o","l","-","s","h","i","f","t">>
meta_shift ==
    <<"m","e","t","a","-","s","h","i","f","t">>
ArrowUp ==
    <<"A","r","r","o","w","U","p">>
ArrowDown ==
    <<"A","r","r","o","w","D","o","w","n">>
ArrowRight ==
    <<"A","r","r","o","w","R","i","g","h","t">>
ArrowLeft ==
    <<"A","r","r","o","w","L","e","f","t">>
Enter ==
    <<"E","n","t","e","r">>
active ==
    <<"a","c","t","i","v","e">>
top_right ==
    <<"t","o","p","-","r","i","g","h","t">>
LIT_true ==
    <<"t","r","u","e">>
LIT_false ==
    <<"f","a","l","s","e">>

\* ------------------------------------------------------------------------
\* JavaScript string operations, as String.prototype defines them.

\* s.startsWith(p)
StartsWith(s, p) ==
    /\ Len(p) <= Len(s)
    /\ SubSeq(s, 1, Len(p)) = p

\* s.endsWith(p)
EndsWith(s, p) ==
    /\ Len(p) <= Len(s)
    /\ SubSeq(s, Len(s) - Len(p) + 1, Len(s)) = p

\* s.indexOf(c): the 0-based index of the first c, -1 when there is none
IndexOf(s, c) ==
    IF \E i \in 1..Len(s) : s[i] = c
    THEN (CHOOSE i \in 1..Len(s) : s[i] = c /\ \A j \in 1..(i - 1) : s[j] # c) - 1
    ELSE -1

\* s.lastIndexOf(c): the 0-based index of the last c, -1 when there is none
LastIndexOf(s, c) ==
    IF \E i \in 1..Len(s) : s[i] = c
    THEN (CHOOSE i \in 1..Len(s) : s[i] = c /\ \A j \in (i + 1)..Len(s) : s[j] # c) - 1
    ELSE -1

\* The clamping substring applies to each index: below 0 is 0, above the length
\* is the length.
Clamp(i, n) ==
    IF i < 0 THEN 0 ELSE IF i > n THEN n ELSE i

\* s.substring(start, end): both indexes clamped to 0..length, and swapped when
\* start is greater than end.
Substring(s, start, end) ==
    LET a == Clamp(start, Len(s))
        b == Clamp(end, Len(s))
        lo == IF a <= b THEN a ELSE b
        hi == IF a <= b THEN b ELSE a
    IN  SubSeq(s, lo + 1, hi)

\* The 1-based position of the first occurrence of pat in s, 0 when there is none.
FindFirst(s, pat) ==
    LET hits == {i \in 1..(Len(s) - Len(pat) + 1) : SubSeq(s, i, i + Len(pat) - 1) = pat}
    IN  IF hits = {} THEN 0 ELSE CHOOSE i \in hits : \A j \in hits : i <= j

\* s.replace(pat, rep) with a string pattern: the first occurrence only.  (The
\* replacement holds no "$" in any state of the model.)
ReplaceFirst(s, pat, rep) ==
    LET i == FindFirst(s, pat)
    IN  IF i = 0 THEN s
        ELSE SubSeq(s, 1, i - 1) \o rep \o SubSeq(s, i + Len(pat), Len(s))

\* s.replace(/<suffix>$/, rep): the pattern is anchored at the end.
ReplaceSuffix(s, suffix, rep) ==
    IF EndsWith(s, suffix) THEN SubSeq(s, 1, Len(s) - Len(suffix)) \o rep ELSE s

\* ------------------------------------------------------------------------
\* JavaScript values: undefined, strings, booleans and plain objects.  An object
\* is its own enumerable properties in insertion order, a sequence of
\* <<key, value>> pairs with no key twice.

Undefined ==
    [t |-> "undefined", s |-> <<>>, b |-> FALSE, o |-> <<>>]

Str(x) ==
    [t |-> "string", s |-> x, b |-> FALSE, o |-> <<>>]

Bool(x) ==
    [t |-> "boolean", s |-> <<>>, b |-> x, o |-> <<>>]

Obj(pairs) ==
    [t |-> "object", s |-> <<>>, b |-> FALSE, o |-> pairs]

\* ToBoolean(v): undefined, false and "" are falsy, every object is truthy.
Truthy(v) ==
    CASE v.t = "undefined" -> FALSE
      [] v.t = "string" -> v.s # <<>>
      [] v.t = "boolean" -> v.b
      [] OTHER -> TRUE

HasKey(pairs, k) ==
    \E i \in 1..Len(pairs) : pairs[i][1] = k

\* obj[k]: undefined for a key the object does not have.
Get(v, k) ==
    IF v.t = "object" /\ HasKey(v.o, k)
    THEN (v.o[CHOOSE i \in 1..Len(v.o) : v.o[i][1] = k])[2]
    ELSE Undefined

\* obj[k] = x on the property list: an existing key keeps its place, a new key
\* goes last.
SetProp(pairs, k, x) ==
    IF HasKey(pairs, k)
    THEN [i \in 1..Len(pairs) |-> IF pairs[i][1] = k THEN <<k, x>> ELSE pairs[i]]
    ELSE Append(pairs, <<k, x>>)

\* The properties an object spread ...v copies: those of an object, none of a
\* boolean.
OwnPairs(v) ==
    IF v.t = "object" THEN v.o ELSE <<>>

RECURSIVE AssignAll(_, _)
AssignAll(target, src) ==
    IF src = <<>> THEN target
    ELSE AssignAll(SetProp(target, src[1][1], src[1][2]), Tail(src))

\* { ...a, ...b }
Spread(a, b) ==
    Obj(AssignAll(AssignAll(<<>>, OwnPairs(a)), OwnPairs(b)))

\* ------------------------------------------------------------------------
\* JSON.stringify and JSON.parse on these values.

\* A string put between quotes as it is.
Escape_None(s) ==
    s

RECURSIVE Escape(_)
\* The characters of a JSON string: a quote, a backslash and a line break are
\* escaped.
Escape(s) ==
    IF s = <<>> THEN <<>>
    ELSE (CASE s[1] = "\"" -> <<"\\", "\"">>
            [] s[1] = "\\" -> <<"\\", "\\">>
            [] s[1] = "\n" -> <<"\\", "n">>
            [] OTHER -> <<s[1]>>) \o Escape(Tail(s))

Quote(s) ==
    <<"\"">> \o Escape(s) \o <<"\"">>

RECURSIVE Stringify(_), StringifyMembers(_, _)
\* JSON.stringify(v) for a string, a boolean or an object.
Stringify(v) ==
    CASE v.t = "string" -> Quote(v.s)
      [] v.t = "boolean" -> IF v.b THEN LIT_true ELSE LIT_false
      [] OTHER -> <<"{">> \o StringifyMembers(v.o, TRUE) \o <<"}">>

\* The members of an object: a property whose value is undefined is left out.
StringifyMembers(pairs, first) ==
    IF pairs = <<>> THEN <<>>
    ELSE IF pairs[1][2].t = "undefined" THEN StringifyMembers(Tail(pairs), first)
    ELSE (IF first THEN <<>> ELSE <<",">>)
         \o Quote(pairs[1][1]) \o <<":">> \o Stringify(pairs[1][2])
         \o StringifyMembers(Tail(pairs), FALSE)

\* JSON.parse is the reader's side of the options module: the inspector's
\* browser code, or a test, parsing what load returned.

\* What JSON.parse throws on.
SyntaxError ==
    [t |-> "error", s |-> <<>>, b |-> FALSE, o |-> <<>>]

RECURSIVE ScanString(_, _)
\* The text after an opening quote: the string's characters up to the closing
\* quote, and what follows it.
ScanString(s, acc) ==
    IF s = <<>> THEN [v |-> SyntaxError, rest |-> <<>>]
    ELSE IF s[1] = "\"" THEN [v |-> Str(acc), rest |-> Tail(s)]
    ELSE IF s[1] = "\\"
    THEN IF Len(s) < 2 THEN [v |-> SyntaxError, rest |-> <<>>]
         ELSE ScanString(SubSeq(s, 3, Len(s)),
                         Append(acc, IF s[2] = "n" THEN "\n" ELSE s[2]))
    ELSE ScanString(Tail(s), Append(acc, s[1]))

RECURSIVE ParseValue(_), ParseMembers(_, _)
ParseValue(s) ==
    IF s = <<>> THEN [v |-> SyntaxError, rest |-> <<>>]
    ELSE IF s[1] = "\"" THEN ScanString(Tail(s), <<>>)
    ELSE IF s[1] = "{" THEN ParseMembers(Tail(s), <<>>)
    ELSE IF StartsWith(s, LIT_true)
    THEN [v |-> Bool(TRUE), rest |-> SubSeq(s, Len(LIT_true) + 1, Len(s))]
    ELSE IF StartsWith(s, LIT_false)
    THEN [v |-> Bool(FALSE), rest |-> SubSeq(s, Len(LIT_false) + 1, Len(s))]
    ELSE [v |-> SyntaxError, rest |-> <<>>]

ParseMembers(s, acc) ==
    IF s = <<>> THEN [v |-> SyntaxError, rest |-> <<>>]
    ELSE IF s[1] = "}" THEN [v |-> Obj(acc), rest |-> Tail(s)]
    ELSE IF s[1] = "," THEN ParseMembers(Tail(s), acc)
    ELSE IF s[1] # "\"" THEN [v |-> SyntaxError, rest |-> <<>>]
    ELSE LET key == ScanString(Tail(s), <<>>)
         IN  IF key.v.t = "error" \/ key.rest = <<>> \/ key.rest[1] # ":"
             THEN [v |-> SyntaxError, rest |-> <<>>]
             ELSE LET val == ParseValue(Tail(key.rest))
                  IN  IF val.v.t = "error" THEN val
                      ELSE ParseMembers(val.rest, SetProp(acc, key.v.s, val.v))

\* JSON.parse(text): the value, or SyntaxError when text is not one JSON value.
JSONparse(text) ==
    LET r == ParseValue(text)
    IN  IF r.v.t # "error" /\ r.rest = <<>> THEN r.v ELSE SyntaxError

RECURSIVE SameValue(_, _)
\* Recursive equality of two values as a test's toEqual compares them: the same
\* type and content, objects having the same value under every key whatever the
\* order of their keys, a key whose value is undefined counting as absent.
SameValue(a, b) ==
    IF a.t # b.t THEN FALSE
    ELSE IF a.t # "object" THEN a = b
    ELSE \A k \in {a.o[i][1] : i \in 1..Len(a.o)} \cup {b.o[i][1] : i \in 1..Len(b.o)} :
            SameValue(Get(a, k), Get(b, k))

\* ------------------------------------------------------------------------
\* The environment of one session.

\* process.platform
Platforms ==
    {"linux", "win32"}

\* fileURLToPath(import.meta.url): where the plugin module is installed, either
\* in the companion plugin's dist directory or in a directory of the project.
ModulePaths(plat) ==
    IF plat = "win32"
    THEN {<<"C",":","\\","r","\\","v","i","t","e","-","p","l","u","g","i","n","-","s","v","e","l","t","e","\\","d","i","s","t","\\","i","n","d","e","x",".","j","s">>,
          <<"C",":","\\","r","\\","i","n","s","p","e","c","t","o","r","\\","p","l","u","g","i","n",".","t","s">>}
    ELSE {<<"/","r","/","v","i","t","e","-","p","l","u","g","i","n","-","s","v","e","l","t","e","/","d","i","s","t","/","i","n","d","e","x",".","j","s">>,
          <<"/","r","/","i","n","s","p","e","c","t","o","r","/","p","l","u","g","i","n",".","t","s">>}

\* The path separators of the platform's path module.
IsSep(c, plat) ==
    c = "/" \/ (plat = "win32" /\ c = "\\")

RECURSIVE StripTrailingSeps(_, _)
StripTrailingSeps(p, plat) ==
    IF p # <<>> /\ IsSep(p[Len(p)], plat)
    THEN StripTrailingSeps(SubSeq(p, 1, Len(p) - 1), plat)
    ELSE p

\* The 1-based position of the last separator of p, 0 when it has none.
LastSep(p, plat) ==
    IF \E i \in 1..Len(p) : IsSep(p[i], plat)
    THEN CHOOSE i \in 1..Len(p) :
            IsSep(p[i], plat) /\ \A j \in (i + 1)..Len(p) : ~IsSep(p[j], plat)
    ELSE 0

\* path.dirname(p) for a path with a directory part and no trailing separator.
Dirname(p, plat) ==
    LET i == LastSep(p, plat)
    IN  IF i = 0 THEN <<".">> ELSE IF i = 1 THEN <<p[1]>> ELSE SubSeq(p, 1, i - 1)

\* path.basename(p): the last segment, trailing separators ignored.
Basename(p, plat) ==
    LET q == StripTrailingSeps(p, plat)
    IN  SubSeq(q, LastSep(q, plat) + 1, Len(q))

RECURSIVE CollapseSlashes(_)
CollapseSlashes(p) ==
    IF Len(p) < 2 THEN p
    ELSE IF p[1] = "/" /\ p[2] = "/" THEN CollapseSlashes(Tail(p))
    ELSE <<p[1]>> \o CollapseSlashes(Tail(p))

\* vite's normalizePath(p): backslashes become slashes on Windows, then
\* path.posix.normalize, which on a path without "." and ".." segments
\* collapses repeated slashes.
NormalizePath(p, plat) ==
    CollapseSlashes([i \in 1..Len(p) |->
                        IF plat = "win32" /\ p[i] = "\\" THEN "/" ELSE p[i]])

\* getInspectorPath()
GetInspectorPath(modulePath, plat) ==
    ReplaceSuffix(NormalizePath(Dirname(modulePath, plat), plat), DIST_SUFFIX, UI_DIR)

\* const inspectorPath = getInspectorPath() + '/'
InspectorPathOf(modulePath, plat) ==
    GetInspectorPath(modulePath, plat) \o <<"/">>

\* defaultInspectorOptions
DefaultInspectorOptions(plat) ==
    Obj(<< <<K_toggleKeyCombo, Str(IF plat = "win32" THEN control_shift ELSE meta_shift)>>,
           <<K_navKeys, Obj(<< <<K_parent, Str(ArrowUp)>>, <<K_child, Str(ArrowDown)>>,
                               <<K_next, Str(ArrowRight)>>, <<K_prev, Str(ArrowLeft)>> >>)>>,
           <<K_openKey, Str(Enter)>>,
           <<K_holdMode, Bool(FALSE)>>,
           <<K_showToggleButton, Str(active)>>,
           <<K_toggleButtonPos, Str(top_right)>>,
           <<K_customStyles, Bool(TRUE)>> >>)

\* ------------------------------------------------------------------------
\* The host's resolved configuration: its plugins, each with its name and, for
\* the companion plugin, api.options.experimental.nvim_inspector and
\* api.options.kit (undefined where the chain of fields ends early).

Plugin(name, nvim_inspector, kit) ==
    [name |-> name, nvim_inspector |-> nvim_inspector, kit |-> kit]

OtherPlugin ==
    Plugin("vite:css", Undefined, Undefined)

\* Values of experimental.nvim_inspector a user configuration gives.
UserOptionValues ==
    { Undefined,
      Bool(FALSE),
      Bool(TRUE),
      Obj(<< <<K_toggleKeyCombo, Str(<<"a","\"","\\">>)>>,
             <<K_navKeys, Obj(<< <<K_parent, Str(<<"w">>)>> >>)>>,
             <<K_holdMode, Bool(TRUE)>> >>),
      Obj(<< <<K_appendTo, Str(<<>>)>>, <<K_customStyles, Bool(FALSE)>> >>),
      Obj(<< <<K_appendTo, Str(<<"A","p","p",".","s","v","e","l","t","e">>)>>,
             <<K_openKey, Undefined>> >>) }

\* Values of api.options.kit: no kit, a kit with the default outDir, a kit with
\* an outDir of its own.
KitValues ==
    { Undefined,
      Obj(<<>>),
      Obj(<< <<K_outDir, Str(<<"b","/","o","u","t">>)>> >>) }

\* config.plugins
PluginLists ==
    { <<>>, <<OtherPlugin>> }
    \cup { <<OtherPlugin, Plugin("vite-plugin-svelte", u, k)>> :
             u \in UserOptionValues, k \in KitValues }

\* config.plugins.find((p) => p.name === 'vite-plugin-svelte'): the 1-based
\* position of the first such plugin, 0 for undefined.
FindVps(plugins) ==
    IF \E i \in 1..Len(plugins) : plugins[i].name = "vite-plugin-svelte"
    THEN CHOOSE i \in 1..Len(plugins) :
            /\ plugins[i].name = "vite-plugin-svelte"
            /\ \A j \in 1..(i - 1) : plugins[j].name # "vite-plugin-svelte"
    ELSE 0

\* vps?.api?.options?.experimental?.nvim_inspector
NvimInspectorOf(plugins) ==
    IF FindVps(plugins) = 0 THEN Undefined ELSE plugins[FindVps(plugins)].nvim_inspector

\* vps.api.options.kit
KitOf(plugins) ==
    IF FindVps(plugins) = 0 THEN Undefined ELSE plugins[FindVps(plugins)].kit

\* A merge in which the defaults win over the user's fields.
MergedOptions_DefaultsWin(defaults, user) ==
    Spread(user, defaults)

\* { ...defaultInspectorOptions, ...vps.api.options.experimental.nvim_inspector }
MergedOptions(defaults, user) ==
    Spread(defaults, user)

\* inspectorOptions after the first if of configResolved.
OptionsAfterMerge(plugins, plat, current) ==
    IF Truthy(NvimInspectorOf(plugins))
    THEN MergedOptions(DefaultInspectorOptions(plat), NvimInspectorOf(plugins))
    ELSE current

\* !vps || !inspectorOptions
ConfigMissing(plugins, opts) ==
    FindVps(plugins) = 0 \/ ~Truthy(opts)

\* `${out_dir}/generated/root.svelte` with
\* out_dir = path.basename(kit.outDir || '.svelte-kit')
KitAppendTo(kit, plat) ==
    Basename(IF Truthy(Get(kit, K_outDir)) THEN Get(kit, K_outDir).s ELSE DOT_SVELTE_KIT,
             plat) \o GENERATED_ROOT

\* inspectorOptions after the kit branch of configResolved.
OptionsWithAppendTo(opts, kit, plat) ==
    IF Truthy(kit) /\ ~Truthy(Get(opts, K_appendTo))
    THEN Obj(SetProp(opts.o, K_appendTo, Str(KitAppendTo(kit, plat))))
    ELSE opts

\* ------------------------------------------------------------------------
\* What a hook returns: undefined, a string (an id or a source text),
\* { code } or { html, tags }.

NotHandled ==
    [kind |-> "undefined", text |-> <<>>, tags |-> <<>>]

RetString(text) ==
    [kind |-> "string", text |-> text, tags |-> <<>>]

RetCode(code) ==
    [kind |-> "code", text |-> code, tags |-> <<>>]

\* The script tag transformIndexHtml adds to the body.
ScriptTag ==
    [tag |-> "script", injectTo |-> "body", type |-> "module", src |-> SCRIPT_SRC]

RetHtml(html, tags) ==
    [kind |-> "html", text |-> html, tags |-> tags]

\* resolveId without the check of disabled.
ResolveIdResult_IgnoresDisabled(importee, ssr, dis, ipath) ==
    IF ssr THEN NotHandled
    ELSE IF StartsWith(importee, OPTIONS_ID) THEN RetString(importee)
    ELSE IF StartsWith(importee, PATH_PREFIX)
    THEN RetString(ReplaceFirst(importee, PATH_PREFIX, ipath))
    ELSE NotHandled

\* resolveId(importee, options)
ResolveIdResult(importee, ssr, dis, ipath) ==
    IF ssr \/ dis THEN NotHandled
    ELSE IF StartsWith(importee, OPTIONS_ID) THEN RetString(importee)
    ELSE IF StartsWith(importee, PATH_PREFIX)
    THEN RetString(ReplaceFirst(importee, PATH_PREFIX, ipath))
    ELSE NotHandled

\* idToFile(id): the id without its query and hash.
IdToFile(id) ==
    LET cut == {i \in 1..Len(id) : id[i] \in {"?", "#"}}
    IN  IF cut = {} THEN id
        ELSE SubSeq(id, 1, (CHOOSE i \in cut : \A j \in cut : i <= j) - 1)

\* The files of the inspector's directory on disk.
FilesOnDisk(ipath) ==
    {ipath \o LOADER}

\* fs.existsSync(file)
ExistsSync(file, ipath) ==
    file \in FilesOnDisk(ipath)

\* fs.promises.readFile(file, 'utf-8') of an existing file.
ReadFile(file) ==
    <<"/", "/", " ">> \o Basename(file, "linux")

\* `export default ${JSON.stringify(inspectorOptions ?? {})}`
OptionsModule(opts) ==
    EXPORT_DEFAULT \o Stringify(IF opts.t = "undefined" THEN Obj(<<>>) ELSE opts)

\* load(id, options)
LoadResult(id, ssr, dis, opts, ipath) ==
    IF ssr \/ dis THEN NotHandled
    ELSE IF id = OPTIONS_ID THEN RetString(OptionsModule(opts))
    ELSE IF StartsWith(id, ipath) /\ ExistsSync(IdToFile(id), ipath)
    THEN RetString(ReadFile(IdToFile(id)))
    ELSE NotHandled

\* transform(code, id, options)
TransformResult(code, id, ssr, dis, target) ==
    IF ssr \/ dis \/ ~Truthy(target) THEN NotHandled
    ELSE IF EndsWith(id, target.s) THEN RetCode(code \o IMPORT_STMT)
    ELSE NotHandled

\* transformIndexHtml without the check of appendTo.
TransformIndexHtmlResult_IgnoresAppendTo(html, dis, target) ==
    IF dis THEN NotHandled
    ELSE RetHtml(html, <<ScriptTag>>)

\* transformIndexHtml(html)
TransformIndexHtmlResult(html, dis, target) ==
    IF dis \/ Truthy(target) THEN NotHandled
    ELSE RetHtml(html, <<ScriptTag>>)

\* ------------------------------------------------------------------------
\* The dev-channel handler's parsing of data.msg.

\* const msg = data.msg ?? ''
MsgOf(data) ==
    IF data.t = "undefined" THEN <<>> ELSE data.s

\* const file = msg.substring(0, msg.indexOf(':'))
MsgFile(msg) ==
    Substring(msg, 0, IndexOf(msg, ":"))

\* const row = msg.substring(msg.indexOf(':') + 1, msg.lastIndexOf(':')) || '0'
MsgRow(msg) ==
    LET r == Substring(msg, IndexOf(msg, ":") + 1, LastIndexOf(msg, ":"))
    IN  IF r = <<>> THEN <<"0">> ELSE r

\* A callback that launches the cursor command only after a success.
CallbackLaunchesCursor_OnSuccessOnly(err) ==
    ~err

\* Whether the completion callback of the open command launches the cursor
\* command: it does after a success and after a failure alike.
CallbackLaunchesCursor(err) ==
    TRUE

\* ------------------------------------------------------------------------
\* Inputs of the hooks.

Importees(ipath) ==
    { OPTIONS_ID,
      OPTIONS_ID \o <<".","j","s">>,
      PATH_PREFIX \o LOADER,
      PATH_PREFIX,
      PATH_PREFIX \o <<"a","/">> \o PATH_PREFIX \o <<"b">>,
      <<".","/","a",".","j","s">> }

LoadIds(ipath) ==
    { OPTIONS_ID,
      OPTIONS_ID \o <<".","j","s">>,
      ipath \o LOADER,
      ipath \o LOADER \o <<"?","v","=","1">>,
      ipath \o <<"n","o",".","j","s">>,
      <<"/","s","/","x",".","j","s">> }

TransformIds ==
    { <<"/","p","/",".","s","v","e","l","t","e","-","k","i","t","/","g","e","n","e","r","a","t","e","d","/","r","o","o","t",".","s","v","e","l","t","e">>,
      <<"/","p","/","o","u","t","/","g","e","n","e","r","a","t","e","d","/","r","o","o","t",".","s","v","e","l","t","e">>,
      <<"/","s","/","A","p","p",".","s","v","e","l","t","e">>,
      <<"/","s","/","x",".","j","s">> }

Codes ==
    { <<>>, <<"l","e","t"," ","a">> }

Htmls ==
    { <<>>, <<"<","p",">">> }

\* data of a 'my:from-client' message: data.msg, absent or a text.
MessageData ==
    { Undefined,
      Str(<<"s","r","c","/","A","p","p",".","s","v","e","l","t","e",":","4","2",":","e","x","t","r","a">>),
      Str(<<"o","n","l","y","f","i","l","e">>),
      Str(<<"s","r","c","/","A","p","p",".","s","v","e","l","t","e",":","4","2">>),
      Str(<<"a",":",":">>),
      Str(<<"a",":","1",":","2",":","x">>) }

\* How many 'my:from-client' messages a run receives.
MaxMessages ==
    2

\* ------------------------------------------------------------------------
\* The state of one session.

VARIABLES
    platform,          \* process.platform
    modulePath,        \* fileURLToPath(import.meta.url)
    inspectorPath,     \* const inspectorPath
    config,            \* config.plugins as the host passed it to configResolved
    phase,             \* "created" until the host has called configResolved
    inspectorOptions,  \* let inspectorOptions
    appendTo,          \* let appendTo
    disabled,          \* let disabled
    last,              \* the last call of resolveId, load, transform or transformIndexHtml
    fired,             \* the delivery modes that have injected: "append", "tag"
    listening,         \* whether the 'my:from-client' handler is registered
    msgs               \* the messages handled, each with the commands launched for it

vars ==
    <<platform, modulePath, inspectorPath, config, phase, inspectorOptions,
      appendTo, disabled, last, fired, listening, msgs>>

envVars ==
    <<platform, modulePath, inspectorPath>>

sessionVars ==
    <<config, phase, inspectorOptions, appendTo, disabled>>

NoCall ==
    [hook |-> "none", id |-> <<>>, code |-> <<>>, ssr |-> FALSE, ret |-> NotHandled]

Call(hook, id, code, ssr, ret) ==
    [hook |-> hook, id |-> id, code |-> code, ssr |-> ssr, ret |-> ret]

\* svelteInspector(): the closure's variables as the factory leaves them.
Init ==
    /\ platform \in Platforms
    /\ modulePath \in ModulePaths(platform)
    /\ inspectorPath = InspectorPathOf(modulePath, platform)
    /\ config = <<>>
    /\ phase = "created"
    /\ inspectorOptions = Undefined
    /\ appendTo = Undefined
    /\ disabled = FALSE
    /\ last = NoCall
    /\ fired = {}
    /\ listening = FALSE
    /\ msgs = <<>>

\* configResolved(config): the host calls it once, before every other hook.
ConfigResolved ==
    /\ phase = "created"
    /\ \E plugins \in PluginLists :
        LET opts == OptionsAfterMerge(plugins, platform, inspectorOptions)
            full == OptionsWithAppendTo(opts, KitOf(plugins), platform)
        IN  /\ config' = plugins
            /\ IF ConfigMissing(plugins, opts)
               THEN /\ disabled' = TRUE
                    /\ inspectorOptions' = opts
                    /\ appendTo' = appendTo
               ELSE /\ disabled' = disabled
                    /\ inspectorOptions' = full
                    /\ appendTo' = Get(full, K_appendTo)
    /\ phase' = "configured"
    /\ UNCHANGED <<envVars, last, fired, listening, msgs>>

\* resolveId(importee, options)
ResolveId ==
    /\ phase = "configured"
    /\ \E importee \in Importees(inspectorPath), ssr \in BOOLEAN :
        last' = Call("resolveId", importee, <<>>, ssr,
                     ResolveIdResult(importee, ssr, disabled, inspectorPath))
    /\ UNCHANGED <<envVars, sessionVars, fired, listening, msgs>>

\* load(id, options)
Load ==
    /\ phase = "configured"
    /\ \E id \in LoadIds(inspectorPath), ssr \in BOOLEAN :
        last' = Call("load", id, <<>>, ssr,
                     LoadResult(id, ssr, disabled, inspectorOptions, inspectorPath))
    /\ UNCHANGED <<envVars, sessionVars, fired, listening, msgs>>

\* transform(code, id, options)
Transform ==
    /\ phase = "configured"
    /\ \E code \in Codes, id \in TransformIds, ssr \in BOOLEAN :
        LET ret == TransformResult(code, id, ssr, disabled, appendTo)
        IN  /\ last' = Call("transform", id, code, ssr, ret)
            /\ fired' = IF ret.kind = "code" THEN fired \cup {"append"} ELSE fired
    /\ UNCHANGED <<envVars, sessionVars, listening, msgs>>

\* transformIndexHtml(html)
TransformIndexHtml ==
    /\ phase = "configured"
    /\ \E html \in Htmls :
        LET ret == TransformIndexHtmlResult(html, disabled, appendTo)
        IN  /\ last' = Call("transformIndexHtml", <<>>, html, FALSE, ret)
            /\ fired' = IF ret.kind = "html" /\ ret.tags # <<>>
                        THEN fired \cup {"tag"} ELSE fired
    /\ UNCHANGED <<envVars, sessionVars, listening, msgs>>

\* configureServer(server): registers the handler of 'my:from-client'.
ConfigureServer ==
    /\ phase = "configured"
    /\ ~listening
    /\ listening' = TRUE
    /\ UNCHANGED <<envVars, sessionVars, last, fired, msgs>>

\* The handler of 'my:from-client': it launches the open command and returns;
\* the command runs on, its completion callback pending.
OnMessage ==
    /\ listening
    /\ Len(msgs) < MaxMessages
    /\ \E data \in MessageData :
        msgs' = Append(msgs, [msg |-> MsgOf(data),
                              file |-> MsgFile(MsgOf(data)),
                              row |-> MsgRow(MsgOf(data)),
                              open |-> "running",
                              cursor |-> 0])
    /\ UNCHANGED <<envVars, sessionVars, last, fired, listening>>

\* The open command of message i exits, with or without an error, and its
\* completion callback runs.
OpenExits ==
    \E i \in 1..Len(msgs), err \in BOOLEAN :
        /\ msgs[i].open = "running"
        /\ msgs' = [msgs EXCEPT ![i].open = IF err THEN "failed" ELSE "ok",
                                ![i].cursor = IF CallbackLaunchesCursor(err)
                                              THEN @ + 1 ELSE @]
        /\ UNCHANGED <<envVars, sessionVars, last, fired, listening>>

\* The plugin pipeline: configuration, then module and HTML requests.
Next ==
    \/ ConfigResolved
    \/ ResolveId
    \/ Load
    \/ Transform
    \/ TransformIndexHtml

Spec ==
    Init /\ [][Next]_vars

\* The dev server's channel: configuration, the handler's registration, then
\* messages and the editor commands they launch.
NextEditor ==
    \/ ConfigResolved
    \/ ConfigureServer
    \/ OnMessage
    \/ OpenExits

SpecEditor ==
    Init /\ [][NextEditor]_vars

\* ------------------------------------------------------------------------
\* Properties.

Configured ==
    phase = "configured"

\* A call of the hook named h was the last one, outside server-side rendering,
\* in an enabled session.
EnabledClientCall(h) ==
    Configured /\ ~disabled /\ last.hook = h /\ ~last.ssr

\* C1: in a session whose configuration has no companion plugin, or has it
\* without a truthy nvim_inspector field, the session is disabled and every
\* call of resolveId, load, transform and transformIndexHtml returns undefined;
\* neither delivery mode ever injects.
C1_DisabledSessionInert ==
    (Configured /\ ~Truthy(NvimInspectorOf(config)))
        => (disabled /\ last.ret = NotHandled /\ fired = {})

\* A disabled session of a kit project, where transform was called with an id
\* ending in the suffix the kit would have given as append target.
C1_Witness ==
    /\ Configured
    /\ FindVps(config) # 0
    /\ ~Truthy(NvimInspectorOf(config))
    /\ Truthy(KitOf(config))
    /\ last.hook = "transform"
    /\ ~last.ssr
    /\ EndsWith(last.id, KitAppendTo(KitOf(config), platform))

\* C2: in an enabled session the delivery mode is decided by appendTo alone: with
\* an append target set (a non-empty appendTo) transformIndexHtml returns
\* undefined, without one transform returns undefined, and the two modes never
\* both inject in one session.
C2_OneDeliveryMode ==
    /\ ~({"append", "tag"} \subseteq fired)
    /\ (Configured /\ ~disabled) =>
        /\ (last.hook = "transformIndexHtml" /\ Truthy(appendTo)) => last.ret = NotHandled
        /\ (last.hook = "transform" /\ ~Truthy(appendTo)) => last.ret = NotHandled
        /\ fired \subseteq {IF Truthy(appendTo) THEN "append" ELSE "tag"}

\* A session that has appended the import to a module and was then asked to
\* transform an HTML document.
C2_Witness ==
    /\ Configured
    /\ ~disabled
    /\ fired = {"append"}
    /\ last.hook = "transformIndexHtml"
    /\ last.code # <<>>

\* C3: in an enabled session, outside server-side rendering, loading the options
\* id returns "export default " followed by JSON text that parses to the
\* session's options record.
C3_OptionsRoundTrip ==
    (EnabledClientCall("load") /\ last.id = OPTIONS_ID) =>
        /\ last.ret.kind = "string"
        /\ StartsWith(last.ret.text, EXPORT_DEFAULT)
        /\ SameValue(JSONparse(SubSeq(last.ret.text, Len(EXPORT_DEFAULT) + 1,
                                      Len(last.ret.text))),
                     inspectorOptions)

\* The options id loaded in a kit session whose user options hold a quote and a
\* backslash and whose append target was derived from the kit.
C3_Witness ==
    /\ EnabledClientCall("load")
    /\ last.id = OPTIONS_ID
    /\ Truthy(KitOf(config))
    /\ Get(inspectorOptions, K_toggleKeyCombo) = Str(<<"a", "\"", "\\">>)
    /\ Get(inspectorOptions, K_appendTo) = Str(DOT_SVELTE_KIT \o GENERATED_ROOT)

\* C5: resolveId returns the options id only for an importee equal to it,
\* rewrites the importees that start with the path prefix, and returns undefined
\* for every other importee; every id it returns is one load recognises.
C5_OptionsIdExactMatch ==
    EnabledClientCall("resolveId") =>
        /\ last.id = OPTIONS_ID => last.ret = RetString(last.id)
        /\ StartsWith(last.id, PATH_PREFIX) =>
              (last.ret.kind = "string" /\ StartsWith(last.ret.text, inspectorPath))
        /\ (last.id # OPTIONS_ID /\ ~StartsWith(last.id, PATH_PREFIX)) =>
              last.ret = NotHandled
        /\ last.ret.kind = "string" =>
              (last.ret.text = OPTIONS_ID \/ StartsWith(last.ret.text, inspectorPath))

\* C6: resolving the path prefix followed by rest gives the inspector's directory,
\* ended by exactly one slash, followed by rest.
C6_OneSlashBeforeRest ==
    (EnabledClientCall("resolveId") /\ StartsWith(last.id, PATH_PREFIX)) =>
        last.ret = RetString(StripTrailingSeps(GetInspectorPath(modulePath, platform), "linux")
                             \o <<"/">>
                             \o SubSeq(last.id, Len(PATH_PREFIX) + 1, Len(last.id)))

\* The keys of an object, undefined having none.
KeysOf(v) ==
    {OwnPairs(v)[i][1] : i \in 1..Len(OwnPairs(v))}

\* opts holds, under every key but those of except, the user's value where the
\* user gives the key and the default's value where the user does not.
ShallowMergeExcept(opts, defaults, user, except) ==
    \A k \in (KeysOf(opts) \cup KeysOf(defaults) \cup KeysOf(user)) \ except :
        /\ HasKey(OwnPairs(opts), k) <=> (HasKey(OwnPairs(defaults), k) \/ HasKey(OwnPairs(user), k))
        /\ Get(opts, k) = IF HasKey(OwnPairs(user), k) THEN Get(user, k) ELSE Get(defaults, k)

\* The session is disabled exactly when the companion plugin is missing or its
\* nvim_inspector field is absent or falsy.
DisabledIffConfigMissing ==
    disabled <=> (FindVps(config) = 0 \/ ~Truthy(NvimInspectorOf(config)))

\* C7 as stated: disabled exactly when the companion or its field is missing, and
\* otherwise the session options are the shallow merge of the defaults with the
\* user's value, under every key.
C7_ShallowMergeEveryKey ==
    Configured =>
        /\ DisabledIffConfigMissing
        /\ ~disabled => ShallowMergeExcept(inspectorOptions, DefaultInspectorOptions(platform),
                                           NvimInspectorOf(config), {})

\* v is the last segment of the kit's outDir ('.svelte-kit' when the kit names
\* none) followed by '/generated/root.svelte'.
IsKitAppendTarget(v, kit) ==
    LET dir == IF Truthy(Get(kit, K_outDir)) THEN Get(kit, K_outDir).s ELSE DOT_SVELTE_KIT
    IN  /\ v.t = "string"
        /\ EndsWith(v.s, GENERATED_ROOT)
        /\ LET seg == SubSeq(v.s, 1, Len(v.s) - Len(GENERATED_ROOT))
           IN  /\ seg # <<>>
               /\ \A i \in 1..Len(seg) : seg[i] # "/"
               /\ EndsWith(<<"/">> \o dir, <<"/">> \o seg)

\* C7, amended: disabled exactly when the companion or its field is missing, and
\* otherwise the session options are the shallow merge of the defaults with the
\* user's value under every key but appendTo; appendTo is the user's value,
\* except that in a kit project an appendTo the user left unset or empty is the
\* kit's '<outDir>/generated/root.svelte'.
C7_ShallowMergeButAppendTo ==
    Configured =>
        /\ DisabledIffConfigMissing
        /\ ~disabled =>
            /\ ShallowMergeExcept(inspectorOptions, DefaultInspectorOptions(platform),
                                  NvimInspectorOf(config), {K_appendTo})
            /\ IF Truthy(KitOf(config)) /\ ~Truthy(Get(NvimInspectorOf(config), K_appendTo))
               THEN IsKitAppendTarget(Get(inspectorOptions, K_appendTo), KitOf(config))
               ELSE ShallowMergeExcept(inspectorOptions, DefaultInspectorOptions(platform),
                                       NvimInspectorOf(config), {})

\* An enabled kit session whose user replaced navKeys and left appendTo unset.
C7_Witness ==
    /\ Configured
    /\ ~disabled
    /\ Get(inspectorOptions, K_navKeys) = Obj(<< <<K_parent, Str(<<"w">>)>> >>)
    /\ Get(inspectorOptions, K_openKey) = Str(Enter)
    /\ Get(KitOf(config), K_outDir) = Str(<<"b", "/", "o", "u", "t">>)
    /\ Get(inspectorOptions, K_appendTo) = Str(<<"o", "u", "t">> \o GENERATED_ROOT)

\* C4: the file of the open command is the payload up to its first colon, the
\* whole payload when it has no colon.
C4_FileBeforeFirstColon ==
    \A i \in 1..Len(msgs) :
        msgs[i].file = IF \E j \in 1..Len(msgs[i].msg) : msgs[i].msg[j] = ":"
                       THEN SubSeq(msgs[i].msg, 1, IndexOf(msgs[i].msg, ":"))
                       ELSE msgs[i].msg

\* C8: a disabled session launches no editor command for any message.
C8_DisabledLaunchesNothing ==
    disabled => msgs = <<>>

\* C9: the row of the cursor command is the text between the payload's first and
\* last colon, '0' when that text is empty or the payload has no colon, and it
\* holds no colon.
C9_RowBetweenColons ==
    \A i \in 1..Len(msgs) :
        LET m == msgs[i].msg
            colons == {j \in 1..Len(m) : m[j] = ":"}
            first == CHOOSE j \in colons : \A k \in colons : j <= k
            final == CHOOSE j \in colons : \A k \in colons : k <= j
            between == IF colons = {} THEN <<>> ELSE SubSeq(m, first + 1, final - 1)
        IN  /\ msgs[i].row = IF between = <<>> THEN <<"0">> ELSE between
            /\ \A j \in 1..Len(msgs[i].row) : msgs[i].row[j] # ":"

\* C10: for every message the open command is launched by the handler, which
\* returns while it runs; the cursor command has not been launched while the open
\* command runs, and has been launched exactly once when the open command has
\* exited, with or without an error.
C10_CursorAfterOpenExits ==
    \A i \in 1..Len(msgs) :
        /\ msgs[i].open \in {"running", "ok", "failed"}
        /\ msgs[i].cursor = IF msgs[i].open = "running" THEN 0 ELSE 1

\* One message whose open command failed and launched the cursor command, one
\* whose open command succeeded, in whatever order.
C10_Witness ==
    /\ \E i \in 1..Len(msgs) : msgs[i].open = "failed" /\ msgs[i].cursor = 1
    /\ \E i \in 1..Len(msgs) : msgs[i].open = "ok" /\ msgs[i].cursor = 1
====
